---- MODULE Spec2Model ----
(***************************************************************************)
(* A model of mbtiles.go: FindMBtiles, Open, Close, ReadTile and           *)
(* ReadMetadata of the MBtiles handle, over a small file tree and a small  *)
(* SQLite container (sqlite_master, the tiles table, the metadata table).  *)
(* database/sql objects (sql.DB, sql.Stmt) are modelled by their open or   *)
(* closed state; Go's nil pointer, nil map and nil slice are explicit.     *)
(***************************************************************************)
EXTENDS Integers, Sequences, FiniteSets, TLC

VARIABLES
    fs,         \* the file tree: path -> "none" | "file" | "dir"
    container,  \* content of the container file: schema, tiles, metadata, modTime
    pools,      \* every sql.DB made by sql.Open: "open" | "closed"
    stmts,      \* every sql.Stmt made by Prepare: [pool, state]
    handles,    \* every *MBtiles value a caller holds (nil included)
    last,       \* the last call and what it returned
    crashed,    \* a panic has unwound the program
    found       \* the result of FindMBtiles

vars == <<fs, container, pools, stmts, handles, last, crashed, found>>

----------------------------------------------------------------------------
(* Bounds of the model. *)

MaxOpens == 1       \* calls of Open
MaxTiles == 2       \* rows of the tiles table
MaxMeta == 2        \* rows of the metadata table
MaxZoom == 1        \* zoom levels 0..MaxZoom
MaxModTime == 3     \* modification times 0..MaxModTime, in ticks

(* time.Second, in ticks of the model's clock. *)
TicksPerSecond == 4

----------------------------------------------------------------------------
(* SQL column values: NULL or a value. *)

NullInt == [null |-> TRUE, n |-> 0]
IntCol(n) == [null |-> FALSE, n |-> n]
NullBlob == [null |-> TRUE, b |-> <<>>]
Blob(b) == [null |-> FALSE, b |-> b]
NullText == [null |-> TRUE, s |-> <<>>]
Text(s) == [null |-> FALSE, s |-> s]

(* Go values: a []byte that may be nil, a map that may be nil. *)
NilBytes == [nil |-> TRUE, b |-> <<>>]
Bytes(b) == [nil |-> FALSE, b |-> b]
EmptyFn == [k \in {} |-> 0]
NilMap == [nil |-> TRUE, m |-> EmptyFn]
MakeMap == [nil |-> FALSE, m |-> EmptyFn]

MaxOf(S) == CHOOSE m \in S : \A k \in S : k <= m
MinOf(S) == CHOOSE m \in S : \A k \in S : m <= k

----------------------------------------------------------------------------
(* The file tree. A path is a sequence of names under the root; a name is  *)
(* a sequence of tokens, so that p + "-journal" is concatenation and        *)
(* filepath.Ext is the suffix from the last token that starts with a dot.  *)

MbtilesExt == <<".mbtiles">>
JournalSuffix == <<"-journal">>
NameA == <<"a", ".mbtiles">>
NameAJ == NameA \o JournalSuffix
NameD == <<"d">>
Names == {NameA, NameAJ, NameD}
SubNames == {NameA, NameAJ}
NameOrder == <<NameA, NameAJ, NameD>>   \* lexical order, as filepath.Walk visits
RootName == <<"r">>
Root == <<>>
AllPaths ==
    {Root} \cup {<<n>> : n \in Names} \cup {<<NameD, m>> : m \in SubNames}
DotTokens == {".mbtiles"}

PathName(p) == IF p = Root THEN RootName ELSE p[Len(p)]

Ext(name) ==
    LET idx == {i \in 1..Len(name) : name[i] \in DotTokens}
    IN IF idx = {} THEN <<>> ELSE SubSeq(name, MaxOf(idx), Len(name))

(* os.Stat(p + "-journal") succeeded. *)
JournalExists(tree, p) ==
    /\ p # Root
    /\ LET j == SubSeq(p, 1, Len(p) - 1) \o <<p[Len(p)] \o JournalSuffix>>
       IN j \in AllPaths /\ tree[j] # "none"

RECURSIVE WalkFrom(_, _)
RECURSIVE ChildrenWalk(_, _, _)
(* The paths filepath.Walk hands to its callback, in order. *)
WalkFrom(tree, p) ==
    IF tree[p] = "dir" THEN <<p>> \o ChildrenWalk(tree, p, 1) ELSE <<p>>
ChildrenWalk(tree, p, i) ==
    IF i > Len(NameOrder) THEN <<>>
    ELSE LET c == Append(p, NameOrder[i])
         IN (IF c \in AllPaths /\ tree[c] # "none" THEN WalkFrom(tree, c) ELSE <<>>)
            \o ChildrenWalk(tree, p, i + 1)

(* The callback of FindMBtiles on one path, without the journal check. *)
WalkFnNoJournalCheck(tree, p, filenames) ==
    IF Ext(PathName(p)) = MbtilesExt THEN Append(filenames, p) ELSE filenames

(* The callback of FindMBtiles on one path (err = nil). *)
WalkFn(tree, p, filenames) ==
    IF JournalExists(tree, p) THEN filenames
    ELSE IF Ext(PathName(p)) = MbtilesExt THEN Append(filenames, p)
    ELSE filenames

RECURSIVE WalkVisit(_, _, _, _, _)
WalkVisit(tree, visits, i, errAt, filenames) ==
    IF i > Len(visits) THEN [err |-> FALSE, paths |-> filenames]
    ELSE IF i = errAt THEN [err |-> TRUE, paths |-> <<>>]
    ELSE WalkVisit(tree, visits, i + 1, errAt, WalkFn(tree, visits[i], filenames))

(* FindMBtiles(root); the walk reports an I/O error at visit errAt (0: none). *)
FindMBtiles(tree, errAt) == WalkVisit(tree, WalkFrom(tree, Root), 1, errAt, <<>>)

----------------------------------------------------------------------------
(* The container. *)

TilesTable == [type |-> "table", name |-> "tiles"]
MetadataTable == [type |-> "table", name |-> "metadata"]
MetadataIndex == [type |-> "index", name |-> "metadata"]   \* an index on tiles
Schemas ==
    {{}, {TilesTable}, {MetadataTable}, {TilesTable, MetadataTable},
     {TilesTable, MetadataIndex}}

HasTable(schema, name) == [type |-> "table", name |-> name] \in schema

(* validateRequiredTables. *)
validateRequiredTables(schema) ==
    LET tableCount == Cardinality({o \in schema : o.name \in {"tiles", "metadata"}})
    IN IF tableCount < 2 THEN "ErrMissingTables" ELSE ""

(* detectTileFormat and detectTileSize: the first token of a payload is    *)
(* its magic signature, the second of a PNG its width.                     *)
detectTileFormat(data) ==
    IF data.nil \/ Len(data.b) = 0 THEN [format |-> "UNKNOWN", err |-> "ErrFormat"]
    ELSE IF data.b[1] = "PNG" THEN [format |-> "PNG", err |-> ""]
    ELSE IF data.b[1] = "JPG" THEN [format |-> "JPG", err |-> ""]
    ELSE IF data.b[1] = "GZ" THEN [format |-> "GZIP", err |-> ""]
    ELSE [format |-> "UNKNOWN", err |-> "ErrFormat"]

detectTileSize(format, data) ==
    IF format = "PNG"
    THEN IF Len(data.b) >= 2 THEN [size |-> data.b[2], err |-> ""]
         ELSE [size |-> 0, err |-> "ErrTileSize"]
    ELSE [size |-> 0, err |-> ""]

(* Rows.Scan of one column into a *[]byte: NULL gives nil, a blob is cloned. *)
ScanBytes(col) == IF col.null THEN NilBytes ELSE Bytes(col.b)

(* getTileFormatAndSize: "select tile_data from tiles limit 1". *)
getTileFormatAndSize(tiles) ==
    IF Len(tiles) = 0 THEN [format |-> "UNKNOWN", tilesize |-> 0, err |-> "ErrNoRows"]
    ELSE LET tileData == ScanBytes(tiles[1].data)
             det == detectTileFormat(tileData)
             format == IF det.format = "GZIP" THEN "PBF" ELSE det.format
             sz == detectTileSize(format, tileData)
         IN IF det.err # "" THEN [format |-> "UNKNOWN", tilesize |-> 0, err |-> det.err]
            ELSE IF sz.err # "" THEN [format |-> format, tilesize |-> sz.size, err |-> sz.err]
            ELSE [format |-> format, tilesize |-> sz.size, err |-> ""]

----------------------------------------------------------------------------
(* time.Time.Round(time.Second): to the nearest multiple, halfway values up. *)

Truncate(t, d) == t - (t % d)

Round(t, d) ==
    LET r == t % d
    IN IF r + r < d THEN t - r ELSE t + (d - r)

----------------------------------------------------------------------------
(* Handles. pool and tileStmt are indices into pools and stmts, 0 for nil. *)

NilHandle ==
    [nil |-> TRUE, filename |-> <<>>, pool |-> 0, tileStmt |-> 0,
     format |-> "UNKNOWN", timestamp |-> 0, tilesize |-> 0]
ZeroHandle ==
    [nil |-> FALSE, filename |-> <<>>, pool |-> 0, tileStmt |-> 0,
     format |-> "UNKNOWN", timestamp |-> 0, tilesize |-> 0]

NoCoord == <<0, 0, 0>>
NoCall ==
    [op |-> "none", h |-> 0, path |-> Root, coord |-> NoCoord, err |-> "",
     data |-> NilBytes, meta |-> NilMap, panic |-> FALSE]

(* Open(path). fail names the step at which the operating system or the    *)
(* driver fails ("none": nowhere). The result: the handle returned, the    *)
(* error, and the pools and statements as Open leaves them.                *)
Open(path, fail, tree, c, ps, ss) ==
    LET ret(h, e, p2, s2) == [handle |-> h, err |-> e, pools |-> p2, stmts |-> s2]
        pool == Len(ps) + 1
        ps1 == Append(ps, "open")
        fmt == getTileFormatAndSize(c.tiles)
        s1 == Append(ss, [pool |-> pool, state |-> "open"])
        s2 == Append(s1, [pool |-> pool, state |-> "open"])
        db == [nil |-> FALSE, filename |-> path, pool |-> pool,
               tileStmt |-> Len(s2), format |-> fmt.format,
               timestamp |-> Round(c.modTime, TicksPerSecond),
               tilesize |-> fmt.tilesize]
    IN IF fail = "stat" THEN ret(NilHandle, "ErrStat", ps, ss)
       ELSE IF tree[path] = "none" THEN ret(NilHandle, "ErrPathNotExist", ps, ss)
       ELSE IF JournalExists(tree, path) THEN ret(NilHandle, "ErrJournal", ps, ss)
       ELSE IF fail = "sqlopen" THEN ret(NilHandle, "ErrSqlOpen", ps, ss)
       ELSE IF tree[path] = "dir" THEN ret(NilHandle, "ErrQuery", ps1, ss)
       ELSE IF validateRequiredTables(c.schema) # ""
            THEN ret(NilHandle, validateRequiredTables(c.schema), ps1, ss)
       ELSE IF fmt.err # "" THEN ret(NilHandle, fmt.err, ps1, ss)
       ELSE IF fail = "prepare1" THEN ret(NilHandle, "ErrPrepare", ps1, ss)
       ELSE IF fail = "prepare2" THEN ret(NilHandle, "ErrPrepare", ps1, s1)
       ELSE ret(db, "", ps1, s2)

(* Close. A nil receiver panics at db.tileStmt; the fields are never reset. *)
Close(db, ps, ss) ==
    IF db.nil THEN [panic |-> TRUE, pools |-> ps, stmts |-> ss]
    ELSE [panic |-> FALSE,
          pools |-> IF db.pool # 0 THEN [ps EXCEPT ![db.pool] = "closed"] ELSE ps,
          stmts |-> IF db.tileStmt # 0
                    THEN [ss EXCEPT ![db.tileStmt].state = "closed"] ELSE ss]

(* ReadTile(z, x, y, data): the error and *data on return. *)
ReadTile(db, coord, c, ps, ss) ==
    IF db.nil \/ db.tileStmt = 0 THEN [err |-> "ErrClosedHandle", data |-> NilBytes]
    ELSE IF ss[db.tileStmt].state = "closed" \/ ps[ss[db.tileStmt].pool] = "closed"
         THEN [err |-> "ErrStmtClosed", data |-> NilBytes]
    ELSE LET hit == {i \in 1..Len(c.tiles) :
                        /\ ~c.tiles[i].z.null
                        /\ <<c.tiles[i].z.n, c.tiles[i].x, c.tiles[i].y>> = coord}
         IN IF hit = {} THEN [err |-> "", data |-> NilBytes]
            ELSE [err |-> "", data |-> ScanBytes(c.tiles[MinOf(hit)].data)]

----------------------------------------------------------------------------
(* Metadata values. Text is a sequence of tokens (one character each, or   *)
(* a JSON literal); a decoded value is tagged with its Go type.            *)

StringV(s) == [t |-> "string", s |-> s, n |-> 0, f |-> <<>>]
IntV(n) == [t |-> "int", s |-> <<>>, n |-> n, f |-> <<>>]
Float64V(n) == [t |-> "float64", s |-> <<>>, n |-> n, f |-> <<>>]
FloatsV(f) == [t |-> "[]float64", s |-> <<>>, n |-> 0, f |-> f]

Digits == <<"0", "1", "2", "3", "4", "5", "6", "7", "8", "9">>
IsDigit(c) == \E i \in 1..Len(Digits) : Digits[i] = c
DigitVal(c) == (CHOOSE i \in 1..Len(Digits) : Digits[i] = c) - 1

RECURSIVE DigitsVal(_)
DigitsVal(s) ==
    IF Len(s) = 0 THEN 0
    ELSE 10 * DigitsVal(SubSeq(s, 1, Len(s) - 1)) + DigitVal(s[Len(s)])

AllDigits(s) == Len(s) > 0 /\ \A i \in 1..Len(s) : IsDigit(s[i])

(* strconv.Atoi. *)
Atoi(s) ==
    LET signed == Len(s) > 0 /\ s[1] \in {"+", "-"}
        body == IF signed THEN Tail(s) ELSE s
    IN IF ~AllDigits(body) THEN [n |-> 0, err |-> TRUE]
       ELSE [n |-> IF signed /\ s[1] = "-" THEN 0 - DigitsVal(body) ELSE DigitsVal(body),
             err |-> FALSE]

RECURSIVE SplitComma(_, _)
(* strings.Split(str, ","): cur is the field being read. *)
SplitComma(s, cur) ==
    IF Len(s) = 0 THEN <<cur>>
    ELSE IF Head(s) = "," THEN <<cur>> \o SplitComma(Tail(s), <<>>)
    ELSE SplitComma(Tail(s), Append(cur, Head(s)))

RECURSIVE TrimLeft(_)
TrimLeft(s) == IF Len(s) > 0 /\ Head(s) = " " THEN TrimLeft(Tail(s)) ELSE s
RECURSIVE TrimRight(_)
TrimRight(s) ==
    IF Len(s) > 0 /\ s[Len(s)] = " " THEN TrimRight(SubSeq(s, 1, Len(s) - 1)) ELSE s
TrimSpace(s) == TrimRight(TrimLeft(s))

(* strconv.ParseFloat on [sign] digits [. digits]: the value is num / 10^scale. *)
ParseFloat(s) ==
    LET signed == Len(s) > 0 /\ s[1] \in {"+", "-"}
        body == IF signed THEN Tail(s) ELSE s
        dots == {i \in 1..Len(body) : body[i] = "."}
        dot == IF dots = {} THEN Len(body) + 1 ELSE MinOf(dots)
        ip == SubSeq(body, 1, dot - 1)
        fp == SubSeq(body, dot + 1, Len(body))
        ok == /\ Cardinality(dots) <= 1
              /\ Len(ip) + Len(fp) > 0
              /\ \A i \in 1..Len(ip) : IsDigit(ip[i])
              /\ \A i \in 1..Len(fp) : IsDigit(fp[i])
        mag == DigitsVal(ip \o fp)
    IN IF ~ok THEN [num |-> 0, scale |-> 0, err |-> TRUE]
       ELSE [num |-> IF signed /\ s[1] = "-" THEN 0 - mag ELSE mag,
             scale |-> Len(fp), err |-> FALSE]

RECURSIVE ParseFields(_, _)
ParseFields(fields, out) ==
    IF Len(fields) = 0 THEN [out |-> out, err |-> FALSE]
    ELSE LET v == ParseFloat(TrimSpace(Head(fields)))
         IN IF v.err THEN [out |-> out, err |-> TRUE]
            ELSE ParseFields(Tail(fields), Append(out, [num |-> v.num, scale |-> v.scale]))

(* parseFloats. *)
parseFloats(str) == ParseFields(SplitComma(str, <<>>), <<>>)

(* Go map operations; assignment to an entry of a nil map panics. *)
HasKey(md, k) == ~md.nil /\ k \in DOMAIN md.m
Put(md, k, v) ==
    [nil |-> FALSE, m |-> [x \in DOMAIN md.m \cup {k} |-> IF x = k THEN v ELSE md.m[x]]]

JsonNull == <<"null">>
JsonEmptyObject == <<"{", "}">>
JsonKeys == {"\"minzoom\"", "\"name\""}
Unquote(tok) == IF tok = "\"minzoom\"" THEN "minzoom" ELSE "name"

(* json.Unmarshal([]byte(value), &metadata): null sets the map to nil, an  *)
(* object is merged into it, anything else is an error.                    *)
JsonUnmarshal(value, md) ==
    IF value = JsonNull THEN [md |-> NilMap, err |-> FALSE]
    ELSE IF value = JsonEmptyObject
         THEN [md |-> IF md.nil THEN MakeMap ELSE md, err |-> FALSE]
    ELSE IF /\ Len(value) = 5 /\ value[1] = "{" /\ value[2] \in JsonKeys
            /\ value[3] = ":" /\ IsDigit(value[4]) /\ value[5] = "}"
         THEN [md |-> Put(IF md.nil THEN MakeMap ELSE md, Unquote(value[2]),
                          Float64V(DigitVal(value[4]))),
               err |-> FALSE]
    ELSE [md |-> md, err |-> TRUE]

(* "select * from metadata where value is not ''": NULL passes the filter. *)
FilterMetadata(rows) ==
    SelectSeq(rows, LAMBDA r : r.value.null \/ r.value.s # <<>>)

RECURSIVE ScanRows(_, _, _, _)
(* The rows.Next() loop. The error of rows.Scan is dropped: a column that  *)
(* cannot be converted leaves its variable as the previous row set it.     *)
ScanRows(rows, key, value, md) ==
    IF Len(rows) = 0 THEN [md |-> md, err |-> "", panic |-> FALSE]
    ELSE LET k == Head(rows).name
             v == IF Head(rows).value.null THEN value ELSE Head(rows).value.s
             panicked == [md |-> md, err |-> "", panic |-> TRUE]
             failed(e) == [md |-> NilMap, err |-> e, panic |-> FALSE]
         IN IF k \in {"maxzoom", "minzoom"}
            THEN IF md.nil THEN panicked
                 ELSE IF Atoi(v).err THEN failed("ErrAtoi")
                 ELSE ScanRows(Tail(rows), k, v, Put(md, k, IntV(Atoi(v).n)))
            ELSE IF k \in {"bounds", "center"}
            THEN IF md.nil THEN panicked
                 ELSE IF parseFloats(v).err THEN failed("ErrFloats")
                 ELSE ScanRows(Tail(rows), k, v, Put(md, k, FloatsV(parseFloats(v).out)))
            ELSE IF k = "json"
            THEN IF JsonUnmarshal(v, md).err THEN failed("ErrJSON")
                 ELSE ScanRows(Tail(rows), k, v, JsonUnmarshal(v, md).md)
            ELSE IF md.nil THEN panicked
                 ELSE ScanRows(Tail(rows), k, v, Put(md, k, StringV(v)))

(* The post-pass without the write of maxzoom. *)
SupplementZoomsMinOnly(md, tiles) ==
    LET zs == {tiles[i].z.n : i \in {j \in 1..Len(tiles) : ~tiles[j].z.null}}
    IN IF HasKey(md, "minzoom") /\ HasKey(md, "maxzoom") THEN [md |-> md, panic |-> FALSE]
       ELSE IF zs = {} THEN [md |-> md, panic |-> FALSE]
       ELSE IF md.nil THEN [md |-> md, panic |-> TRUE]
       ELSE [md |-> Put(md, "minzoom", IntV(MinOf(zs))), panic |-> FALSE]

(* The post-pass: "select min(zoom_level), max(zoom_level) from tiles".    *)
(* The aggregates skip NULL and are NULL over no value, which Scan cannot  *)
(* store in an int: the map is then returned as it is.                     *)
SupplementZooms(md, tiles) ==
    LET zs == {tiles[i].z.n : i \in {j \in 1..Len(tiles) : ~tiles[j].z.null}}
    IN IF HasKey(md, "minzoom") /\ HasKey(md, "maxzoom") THEN [md |-> md, panic |-> FALSE]
       ELSE IF zs = {} THEN [md |-> md, panic |-> FALSE]
       ELSE IF md.nil THEN [md |-> md, panic |-> TRUE]
       ELSE [md |-> Put(Put(md, "minzoom", IntV(MinOf(zs))), "maxzoom", IntV(MaxOf(zs))),
             panic |-> FALSE]

(* ReadMetadata: the map, the error, and whether the call panicked. *)
ReadMetadata(db, c, ps) ==
    LET ret(m, e, p) == [meta |-> m, err |-> e, panic |-> p]
        scan == ScanRows(FilterMetadata(c.metadata), "", <<>>, MakeMap)
        sup == SupplementZooms(scan.md, c.tiles)
    IN IF db.nil \/ db.pool = 0 THEN ret(NilMap, "ErrClosedHandle", FALSE)
       ELSE IF ps[db.pool] = "closed" THEN ret(NilMap, "ErrDBClosed", FALSE)
       ELSE IF ~HasTable(c.schema, "metadata") THEN ret(NilMap, "ErrQuery", FALSE)
       ELSE IF scan.panic THEN ret(NilMap, "", TRUE)
       ELSE IF scan.err # "" THEN ret(NilMap, scan.err, FALSE)
       ELSE IF sup.panic THEN ret(NilMap, "", TRUE)
       ELSE ret(sup.md, "", FALSE)

----------------------------------------------------------------------------
(* Initial states. *)

Zooms == 0..MaxZoom
Cols == {0}
Coords == Zooms \X Cols \X Cols
PngTile == <<"PNG", 2>>
GzipTile == <<"GZ">>
Payloads == {NullBlob, Blob(<<>>), Blob(PngTile), Blob(GzipTile)}

TileKey(r) == <<r.z, r.x, r.y>>
(* Tables of at most MaxTiles rows, one row for a coordinate. *)
TileTables(zs, datas) ==
    LET rows == [z : zs, x : Cols, y : Cols, data : datas]
    IN {t \in UNION {[1..n -> rows] : n \in 0..MaxTiles} :
            \A i, j \in 1..Len(t) : TileKey(t[i]) = TileKey(t[j]) => i = j}

MetaNames == {"minzoom", "maxzoom", "bounds", "name", "json"}
JsonObject == <<"{", "\"minzoom\"", ":", "7", "}">>
MetaValues == {NullText, Text(<<>>), Text(<<"1">>), Text(JsonNull), Text(JsonObject)}
MetaTables(names, values) ==
    UNION {[1..n -> [name : names, value : values]] : n \in 0..MaxMeta}

Parent(p) == SubSeq(p, 1, Len(p) - 1)
Trees ==
    {t \in [AllPaths -> {"none", "file", "dir"}] :
        /\ t[Root] = "dir"
        /\ \A p \in AllPaths \ {Root} : t[p] # "none" => t[Parent(p)] = "dir"}
(* Trees that hold at most a container, its journal and a directory. *)
SmallTrees == {t \in Trees : \A p \in AllPaths : Len(p) = 2 => t[p] = "none"}

NotSearched == [done |-> FALSE, err |-> FALSE, paths |-> <<>>]

InitProgram ==
    /\ pools = <<>>
    /\ stmts = <<>>
    /\ handles = <<ZeroHandle>>
    /\ last = NoCall
    /\ crashed = FALSE
    /\ found = NotSearched

(* Any container and modification time, in a small tree. *)
Init ==
    /\ InitProgram
    /\ fs \in {t \in SmallTrees : t[<<NameD>>] = "none" /\ t[<<NameAJ>>] # "dir"}
    /\ \E schema \in Schemas :
       \E tiles \in (IF TilesTable \in schema
                     THEN TileTables({IntCol(z) : z \in Zooms}, Payloads) ELSE {<<>>}) :
       \E metadata \in (IF MetadataTable \in schema
                        THEN {<<>>, <<[name |-> "name", value |-> Text(<<"x">>)]>>}
                        ELSE {<<>>}) :
       \E modTime \in 0..MaxModTime :
          container = [schema |-> schema, tiles |-> tiles, metadata |-> metadata,
                       modTime |-> modTime]

(* A valid container with any metadata table and any zoom levels. *)
InitMeta ==
    /\ InitProgram
    /\ fs = [p \in AllPaths |-> IF p = Root THEN "dir"
                                ELSE IF p = <<NameA>> THEN "file" ELSE "none"]
    /\ \E tiles \in TileTables({NullInt} \cup {IntCol(z) : z \in Zooms}, {Blob(PngTile)}) :
       \E metadata \in MetaTables(MetaNames, MetaValues) :
          /\ Len(tiles) > 0
          /\ container = [schema |-> {TilesTable, MetadataTable}, tiles |-> tiles,
                          metadata |-> metadata, modTime |-> 0]

(* A valid container with any modification time. *)
InitTime ==
    /\ InitProgram
    /\ fs = [p \in AllPaths |-> IF p = Root THEN "dir"
                                ELSE IF p = <<NameA>> THEN "file" ELSE "none"]
    /\ \E modTime \in 0..MaxModTime :
          container = [schema |-> {TilesTable, MetadataTable},
                       tiles |-> <<[z |-> IntCol(0), x |-> 0, y |-> 0,
                                    data |-> Blob(PngTile)]>>,
                       metadata |-> <<>>, modTime |-> modTime]

(* Any tree, over a valid or an empty container. *)
InitLocate ==
    /\ InitProgram
    /\ fs \in Trees
    /\ \E schema \in {{}, {TilesTable, MetadataTable}} :
          container = [schema |-> schema,
                       tiles |-> IF schema = {} THEN <<>>
                                 ELSE <<[z |-> IntCol(0), x |-> 0, y |-> 0,
                                         data |-> Blob(PngTile)]>>,
                       metadata |-> <<>>, modTime |-> 0]

----------------------------------------------------------------------------
(* Actions: one per exported function. *)

OpenFailures == {"none", "stat", "sqlopen", "prepare1", "prepare2"}

OpenStep ==
    /\ ~crashed
    /\ Len(handles) < 1 + MaxOpens
    /\ \E path \in AllPaths, fail \in OpenFailures :
          LET r == Open(path, fail, fs, container, pools, stmts)
          IN /\ handles' = Append(handles, r.handle)
             /\ pools' = r.pools
             /\ stmts' = r.stmts
             /\ last' = [NoCall EXCEPT !.op = "Open", !.h = Len(handles) + 1,
                                       !.path = path, !.err = r.err]
    /\ UNCHANGED <<fs, container, crashed, found>>

CloseStep ==
    /\ ~crashed
    /\ \E h \in 1..Len(handles) :
          LET r == Close(handles[h], pools, stmts)
          IN /\ pools' = r.pools
             /\ stmts' = r.stmts
             /\ crashed' = r.panic
             /\ last' = [NoCall EXCEPT !.op = "Close", !.h = h, !.panic = r.panic]
    /\ UNCHANGED <<fs, container, handles, found>>

ReadTileStep ==
    /\ ~crashed
    /\ \E h \in 1..Len(handles), coord \in Coords :
          LET r == ReadTile(handles[h], coord, container, pools, stmts)
          IN last' = [NoCall EXCEPT !.op = "ReadTile", !.h = h, !.coord = coord,
                                    !.err = r.err, !.data = r.data]
    /\ UNCHANGED <<fs, container, pools, stmts, handles, crashed, found>>

ReadMetadataStep ==
    /\ ~crashed
    /\ \E h \in 1..Len(handles) :
          LET r == ReadMetadata(handles[h], container, pools)
          IN /\ crashed' = r.panic
             /\ last' = [NoCall EXCEPT !.op = "ReadMetadata", !.h = h, !.err = r.err,
                                       !.meta = r.meta, !.panic = r.panic]
    /\ UNCHANGED <<fs, container, pools, stmts, handles, found>>

FindMBtilesStep ==
    /\ ~crashed
    /\ ~found.done
    /\ \E errAt \in 0..Len(WalkFrom(fs, Root)) :
          LET r == FindMBtiles(fs, errAt)
          IN found' = [done |-> TRUE, err |-> r.err, paths |-> r.paths]
    /\ UNCHANGED <<fs, container, pools, stmts, handles, last, crashed>>

Next == OpenStep \/ CloseStep \/ ReadTileStep \/ ReadMetadataStep
NextMeta == OpenStep \/ CloseStep \/ ReadMetadataStep
NextLocate == FindMBtilesStep \/ OpenStep

Spec == Init /\ [][Next]_vars
SpecMeta == InitMeta /\ [][NextMeta]_vars
SpecLocate == InitLocate /\ [][NextLocate]_vars
SpecTime == InitTime /\ [][Next]_vars

----------------------------------------------------------------------------
(* Properties. *)

(* The handle was returned by a successful Open. *)
Opened(h) == ~handles[h].nil /\ handles[h].pool # 0
(* Close has been called on the handle. *)
WasClosed(h) == Opened(h) /\ pools[handles[h].pool] = "closed"
ReturnedOk == last.err = "" /\ ~last.panic
SeqSet(q) == {q[i] : i \in 1..Len(q)}

(* C1: after Open and Close, every ReadTile and ReadMetadata on the handle *)
(* fails with the handle's own closed-database error.                      *)
C1_ReadAfterCloseIsClosedHandle ==
    (last.op \in {"ReadTile", "ReadMetadata"} /\ WasClosed(last.h))
        => last.err = "ErrClosedHandle"

(* C2: on an open handle ReadTile returns the stored payload of a          *)
(* coordinate that has a row, present even when empty, and reports a       *)
(* coordinate without a row as absent with a nil error.                    *)
C2_ReadTileRoundTrip ==
    (last.op = "ReadTile" /\ Opened(last.h) /\ ~WasClosed(last.h))
        => LET rows == {i \in 1..Len(container.tiles) :
                           /\ ~container.tiles[i].z.null
                           /\ <<container.tiles[i].z.n, container.tiles[i].x,
                                container.tiles[i].y>> = last.coord}
           IN IF rows = {} THEN last.err = "" /\ last.data.nil
              ELSE last.err = ""
                     => /\ ~last.data.nil
                        /\ \E i \in rows : last.data.b = container.tiles[i].data.b

(* C3: Close never panics, whatever handle it is called on, the value a    *)
(* failed Open returned included.                                          *)
C3_CloseNeverPanics == last.op = "Close" => ~last.panic

(* C4: Open returns a handle only if the path exists, has no journal, and  *)
(* the container has a tiles table, a metadata table and a first tile that *)
(* is classified; the first failing step decides the error.                *)
C4_OpenChecksInOrder ==
    last.op = "Open" =>
        LET p == last.path
            exists == fs[p] # "none"
            journal == JournalExists(fs, p)
            tables == /\ fs[p] = "file"
                      /\ HasTable(container.schema, "tiles")
                      /\ HasTable(container.schema, "metadata")
            classified == /\ Len(container.tiles) > 0
                          /\ ~container.tiles[1].data.null
                          /\ Len(container.tiles[1].data.b) > 0
                          /\ container.tiles[1].data.b[1] \in {"PNG", "JPG", "GZ"}
            driver == {"ErrStat", "ErrSqlOpen", "ErrQuery"}
        IN /\ last.err = "" => exists /\ ~journal /\ tables /\ classified
           /\ ~exists => last.err \in {"ErrPathNotExist", "ErrStat"}
           /\ exists /\ journal => last.err \in {"ErrJournal", "ErrStat"}
           /\ exists /\ ~journal /\ ~tables
                => last.err \in driver \cup {"ErrMissingTables"}
           /\ exists /\ ~journal /\ tables /\ ~classified
                => last.err \in driver \cup {"ErrNoRows", "ErrFormat"}

(* C5: FindMBtiles returns exactly the existing paths with the extension   *)
(* .mbtiles and no journal beside them, each once; Open of an existing     *)
(* path that has a journal fails with the journal error.                   *)
C5_JournaledNeverExposed ==
    /\ (found.done /\ ~found.err) =>
          /\ SeqSet(found.paths) =
                {p \in AllPaths : /\ fs[p] # "none"
                                  /\ Ext(PathName(p)) = MbtilesExt
                                  /\ ~JournalExists(fs, p)}
          /\ \A i, j \in 1..Len(found.paths) : found.paths[i] = found.paths[j] => i = j
    /\ (last.op = "Open" /\ fs[last.path] # "none" /\ JournalExists(fs, last.path)
            /\ last.err # "ErrStat")
          => last.err = "ErrJournal" /\ handles[last.h].nil

(* C5 witness: a search that skipped a journaled container and returned    *)
(* another one, and an Open of a journaled container.                      *)
C5_Witness ==
    /\ found.done /\ ~found.err /\ Len(found.paths) > 0
    /\ \E p \in AllPaths : fs[p] = "file" /\ Ext(PathName(p)) = MbtilesExt
                             /\ JournalExists(fs, p)
    /\ last.op = "Open" /\ fs[last.path] = "file" /\ JournalExists(fs, last.path)
    /\ last.err = "ErrJournal"

InferableZooms == \E i \in 1..Len(container.tiles) : ~container.tiles[i].z.null

(* C6, as claimed: every mapping ReadMetadata returns without an error     *)
(* holds minzoom and maxzoom.                                              *)
C6_ZoomsAlwaysPresent ==
    (last.op = "ReadMetadata" /\ ReturnedOk)
        => HasKey(last.meta, "minzoom") /\ HasKey(last.meta, "maxzoom")

(* C6, amended: every mapping ReadMetadata returns without an error holds  *)
(* minzoom and maxzoom when some tile row has a zoom level that is not     *)
(* NULL, so that the zoom range query can be scanned; when none has, the   *)
(* mapping holds the zoom keys that the metadata rows gave, and no other.  *)
C6_ZoomsPresentWhenInferable ==
    (last.op = "ReadMetadata" /\ ReturnedOk) =>
        LET rows == container.metadata
            given(k) == \E i \in 1..Len(rows) :
                            /\ rows[i].name = k
                            /\ (rows[i].value.null \/ rows[i].value.s # <<>>)
        IN IF InferableZooms
           THEN HasKey(last.meta, "minzoom") /\ HasKey(last.meta, "maxzoom")
           ELSE (\A i \in 1..Len(rows) : rows[i].name # "json") =>
                    \A k \in {"minzoom", "maxzoom"} : HasKey(last.meta, k) <=> given(k)

(* C6 witness: a successful read that had to infer both zoom keys. *)
C6_Witness ==
    /\ last.op = "ReadMetadata" /\ ReturnedOk /\ InferableZooms
    /\ \A i \in 1..Len(container.metadata) :
          container.metadata[i].name \notin {"minzoom", "maxzoom", "json"}
    /\ Len(container.metadata) > 0
    /\ HasKey(last.meta, "minzoom") /\ HasKey(last.meta, "maxzoom")

(* C7: each of minzoom and maxzoom keeps its decoded value when the        *)
(* metadata table gave one, and is the minimum or maximum zoom level of    *)
(* the tiles when it did not.                                              *)
C7_InferenceFillsOnlyMissing ==
    (last.op = "ReadMetadata" /\ ReturnedOk /\ InferableZooms) =>
        LET scan == ScanRows(FilterMetadata(container.metadata), "", <<>>, MakeMap)
            zs == {container.tiles[i].z.n :
                      i \in {j \in 1..Len(container.tiles) : ~container.tiles[j].z.null}}
        IN /\ HasKey(last.meta, "minzoom")
           /\ HasKey(last.meta, "maxzoom")
           /\ last.meta.m["minzoom"] =
                 IF HasKey(scan.md, "minzoom") THEN scan.md.m["minzoom"]
                 ELSE IntV(MinOf(zs))
           /\ last.meta.m["maxzoom"] =
                 IF HasKey(scan.md, "maxzoom") THEN scan.md.m["maxzoom"]
                 ELSE IntV(MaxOf(zs))

(* The handle's timestamp is a whole number of seconds. *)
WholeSeconds(h) == handles[h].timestamp % TicksPerSecond = 0

(* C8, as claimed: the timestamp of an opened handle is the modification   *)
(* time truncated to whole seconds, never later than it.                   *)
C8_TimestampTruncated ==
    \A h \in 1..Len(handles) : Opened(h) =>
        /\ WholeSeconds(h)
        /\ handles[h].timestamp <= container.modTime
        /\ container.modTime - handles[h].timestamp < TicksPerSecond

(* C8, amended: the timestamp of an opened handle is the modification time *)
(* rounded to the nearest whole second, half a second rounding up, and     *)
(* stays so through ReadTile, ReadMetadata and Close.                      *)
C8_TimestampRounded ==
    \A h \in 1..Len(handles) : Opened(h) =>
        /\ WholeSeconds(h)
        /\ 2 * (handles[h].timestamp - container.modTime) <= TicksPerSecond
        /\ 2 * (container.modTime - handles[h].timestamp) < TicksPerSecond

(* C8 witness: a handle of a file modified half a second or more past the  *)
(* second, after it has been read and closed.                              *)
C8_Witness ==
    /\ last.op = "Close" /\ WasClosed(last.h)
    /\ 2 * (container.modTime % TicksPerSecond) >= TicksPerSecond
    /\ handles[last.h].timestamp > container.modTime

(* C9: without a "json" row, a row with an empty value is omitted and the  *)
(* key of every other row maps to that row's own string, never to the      *)
(* value of another row, a row with a NULL value included.                 *)
C9_VerbatimFromOwnRow ==
    (/\ last.op = "ReadMetadata" /\ ReturnedOk
     /\ \A i \in 1..Len(container.metadata) : container.metadata[i].name # "json") =>
        LET rows == container.metadata
            kept(i) == rows[i].value.null \/ rows[i].value.s # <<>>
            plain(i) == rows[i].name \notin {"minzoom", "maxzoom", "bounds", "center"}
            lastOf(i) == \A j \in 1..Len(rows) :
                            (j > i /\ kept(j)) => rows[j].name # rows[i].name
        IN \A i \in 1..Len(rows) : plain(i) =>
              /\ (\A j \in 1..Len(rows) : rows[j].name = rows[i].name => ~kept(j))
                    => ~HasKey(last.meta, rows[i].name)
              /\ (kept(i) /\ lastOf(i)) =>
                    IF rows[i].value.null
                    THEN HasKey(last.meta, rows[i].name)
                            => last.meta.m[rows[i].name] = StringV(<<>>)
                    ELSE /\ HasKey(last.meta, rows[i].name)
                         /\ last.meta.m[rows[i].name] = StringV(rows[i].value.s)

(* C10: every open session and every open statement belongs to a handle    *)
(* that Open returned; a failed Open leaves nothing open.                  *)
C10_NoLeakedSession ==
    /\ \A p \in 1..Len(pools) : pools[p] = "open" =>
          \E h \in 1..Len(handles) : Opened(h) /\ handles[h].pool = p
    /\ \A q \in 1..Len(stmts) : (stmts[q].state = "open" /\ pools[stmts[q].pool] = "open")
          => \E h \in 1..Len(handles) : Opened(h) /\ handles[h].pool = stmts[q].pool

====
